---- MODULE Spec2Model ----
(***************************************************************************)
(* Model of the caching and orchestration layer of azure-identity-helpers: *)
(* ChainedTokenCredential (src/src/chained_token_credential.rs) wrapped by *)
(* its TokenCache (crate::cache).  Callers are concurrent async tasks; an  *)
(* action is the code between two suspension points of one task.           *)
(***************************************************************************)
EXTENDS Integers, Sequences, FiniteSets, TLC

\* ---------------------------------------------------------------- bounds
NumCallers == 2
MaxSources == 2
MaxTime == 2
MaxPolls == 2

Callers == 1..NumCallers
\* The scope sequences callers ask for (the cache keys).
ScopeSeqs == {<<>>, <<"a">>}

\* Option<T>: None is the empty sequence, Some(x) the one-element sequence.
None == <<>>
Some(x) == <<x>>
IsSome(o) == o # None
Unwrap(o) == o[1]

\* Result<T, Error>
Ok(v) == [tag |-> "Ok", val |-> v]
Err(e) == [tag |-> "Err", val |-> e]
IsOk(r) == r.tag = "Ok"

\* An azure_core Error as std::error::Error sees it: its kind and the
\* messages of its cause chain (to_string() of the error, then of each
\* source() in turn).
Error(kind, stack) == [kind |-> kind, stack |-> stack]

\* The error the get_token of source s fails with.  Every source has its own:
\* a plain message, or a message with a chain of causes behind it.
SourceError(s) ==
    IF s = 1 THEN Error("Other", <<"not installed">>)
    ELSE IF s = 2 THEN Error("Credential", <<"denied", "io">>)
    ELSE Error("Credential", <<"source " \o ToString(s) \o " failed", "timeout", "io">>)

\* AccessToken { token, expires_on }.  The secret names the issuing source.
AccessToken(secret, exp) == [token |-> secret, expires_on |-> exp]

VARIABLES
    retry_sources,          \* options.retry_sources
    sources,                \* Vec<Arc<dyn TokenCredential>>
    shared,                 \* the chain is built and handed to its callers
    successful_credential,  \* RwLock<Option<Arc<dyn TokenCredential>>>: the value
    readers,                \* ... callers holding its read guard
    writer,                 \* ... the caller holding its write guard
    cache,                  \* TokenCache: key -> Option<AccessToken>
    fetching,               \* TokenCache: key -> Option<caller running the fetch>
    now,                    \* the clock
    pc,                     \* per caller: position in get_token
    scopes,                 \* per caller: the scopes of the call
    idx,                    \* per caller: position of the for loop in get_token_impl
    errors,                 \* per caller: `errors` of get_token_impl
    invoked,                \* history, per caller: the source calls of its call so far
    sawFail,                \* history, per caller: since it entered the chain's
                            \*   get_token another caller's ordered search failed
    cleared,                \* history: "no", or what the last clear() found if no
                            \*   call has started since: "racy" (a fetch in flight),
                            \*   "valid" (none, and a valid token dropped), "idle"
    last,                   \* history: the call(s) that returned in the step
                            \*   that led to this state, if any did
    request,                \* DeviceCodeCredential, per caller: the scopes and
                            \*   options of its call, while it is in progress
    refresh_tokens,         \* DeviceCodeCredential: Mutex<BTreeMap<scopes, Secret>>
    mutex,                  \* ... the caller holding its guard
    skipped                 \* DeviceCodeCredential, per caller: the error responses
                            \*   of the poll stream its wait loop has skipped

vars == <<retry_sources, sources, shared, successful_credential, readers, writer,
          cache, fetching, now, pc, scopes, idx, errors, invoked, sawFail, cleared,
          last, request, refresh_tokens, mutex, skipped>>

config == <<retry_sources, sources, shared>>
locks == <<successful_credential, readers, writer>>
caller == <<pc, scopes, idx, errors, invoked, sawFail>>
device == <<request, refresh_tokens, mutex, skipped>>

\* ------------------------------------------------------------ pure helpers
RECURSIVE Join(_, _)
\* [String]::join(sep)
Join(strs, sep) ==
    IF strs = <<>> THEN ""
    ELSE IF Len(strs) = 1 THEN strs[1]
    ELSE strs[1] \o sep \o Join(Tail(strs), sep)

\* The first position at or after which sep occurs in str, 0 if it does not.
FindSep(str, sep) ==
    LET at == {i \in 1..(Len(str) - Len(sep) + 1) : SubSeq(str, i, i + Len(sep) - 1) = sep}
    IN IF at = {} THEN 0 ELSE CHOOSE i \in at : \A j \in at : i <= j

RECURSIVE SplitOn(_, _)
\* str.split(sep): the pieces of str between the occurrences of sep.
SplitOn(str, sep) ==
    LET i == FindSep(str, sep)
    IN IF i = 0 THEN <<str>>
       ELSE <<SubSeq(str, 1, i - 1)>> \o SplitOn(SubSeq(str, i + Len(sep), Len(str)), sep)

\* Variant of ErrorLine: only the top-level message of the error.
ErrorLineTop(e) == e.stack[1]

\* The closure of format_aggregate_error: the messages of the cause chain of
\* one error, " - " separated.
ErrorLine(e) == Join(e.stack, " - ")

format_aggregate_error(errs) ==
    Join([i \in 1..Len(errs) |-> ErrorLine(errs[i])], "\n")

AggregateHeader == "Multiple errors were encountered while attempting to authenticate:\n"

\* Variant of AggregateError: the error is of kind Other.
AggregateErrorOther(errs) ==
    Error("Other", <<AggregateHeader \o format_aggregate_error(errs)>>)

\* The Err(...) that ends get_token_impl when no source succeeded.
AggregateError(errs) ==
    Error("Credential", <<AggregateHeader \o format_aggregate_error(errs)>>)

\* What one call of the get_token of source s may return at time t.  A source
\* is a black box: it may succeed or fail on any call.  A token's expiry is
\* not before the time it is issued (an expiry in the past behaves like t).
SourceOutcomes(s, t) ==
    { Ok(AccessToken(s, e)) : e \in t..MaxTime } \cup { Err(SourceError(s)) }

\* One entry of the history of source calls.
Call(src, r) == [src |-> src, res |-> r]

\* ------------------------------------------------------------------- Init
Init ==
    /\ retry_sources \in BOOLEAN
    /\ sources = <<>>
    /\ shared = FALSE
    /\ successful_credential = None
    /\ readers = {}
    /\ writer = None
    /\ cache = [k \in ScopeSeqs |-> None]
    /\ fetching = [k \in ScopeSeqs |-> None]
    /\ now = 0
    /\ pc = [c \in Callers |-> "idle"]
    /\ scopes = [c \in Callers |-> <<>>]
    /\ idx = [c \in Callers |-> 0]
    /\ errors = [c \in Callers |-> <<>>]
    /\ invoked = [c \in Callers |-> <<>>]
    /\ sawFail = [c \in Callers |-> FALSE]
    /\ cleared = "no"
    /\ last = None
    /\ request = [c \in Callers |-> None]
    /\ refresh_tokens = [s \in ScopeSeqs |-> None]
    /\ mutex = None
    /\ skipped = [c \in Callers |-> 0]

\* ---------------------------------------------------------- construction
\* ChainedTokenCredential::add_source (takes &mut self: before sharing).
AddSource ==
    /\ ~shared
    /\ Len(sources) < MaxSources
    /\ sources' = Append(sources, Len(sources) + 1)
    /\ last' = None
    /\ UNCHANGED <<retry_sources, shared, locks, cache, fetching, now, caller, cleared>>
    /\ UNCHANGED device

\* The chain is wrapped in an Arc and given to the callers.
Share ==
    /\ ~shared
    /\ shared' = TRUE
    /\ last' = None
    /\ UNCHANGED <<retry_sources, sources, locks, cache, fetching, now, caller, cleared>>
    /\ UNCHANGED device

\* The clock advances.
Tick ==
    /\ now < MaxTime
    /\ now' = now + 1
    /\ last' = None
    /\ UNCHANGED <<config, locks, cache, fetching, caller, cleared>>
    /\ UNCHANGED device

\* ------------------------------------------------- TokenCache (crate::cache)
\* Variant of Valid: a token is still served at the instant of its expiry.
ValidAtExpiry(k) == IsSome(cache[k]) /\ now <= Unwrap(cache[k]).expires_on

\* The cached token for key k is still valid: now >= expiry is expired.
Valid(k) == IsSome(cache[k]) /\ now < Unwrap(cache[k]).expires_on

\* What the callers of the cache receive when the fetch closure returned r.
Answer(r) == r

\* History: the calls of `served` for scopes s returned: from the cache
\* (how = "hit") or after the fetch closure returned `fetched` ("fetch"), having
\* called the sources inv, through get_token_impl or not.
Event(served, s, fetched, how, inv, searched, saw) ==
    [callers |-> served, scopes |-> s, result |-> Answer(fetched), fetched |-> fetched,
     how |-> how, invoked |-> inv, ranSearch |-> searched, sawFail |-> saw,
     pinBefore |-> successful_credential, cachedBefore |-> cache[s],
     cleared |-> cleared]

\* TokenCache::get_token up to the fetch: a valid cached token is returned at
\* once; otherwise the caller joins the fetch in flight for the key, or
\* becomes the one caller that runs the fetch closure (the chain's get_token).
CacheGetToken(c, s) ==
    /\ shared
    /\ pc[c] = "idle"
    /\ cleared' = "no"
    /\ IF Valid(s)
       THEN /\ last' = Some(Event({c}, s, Ok(Unwrap(cache[s])), "hit", <<>>, FALSE, FALSE))
            /\ UNCHANGED <<fetching, pc, scopes>>
       ELSE /\ scopes' = [scopes EXCEPT ![c] = s]
            /\ IF IsSome(fetching[s])
               THEN /\ pc' = [pc EXCEPT ![c] = "wait"]
                    /\ UNCHANGED <<fetching>>
               ELSE /\ fetching' = [fetching EXCEPT ![s] = Some(c)]
                    /\ pc' = [pc EXCEPT ![c] = "get_token"]
            /\ last' = None
    /\ UNCHANGED <<config, locks, cache, now, idx, errors, invoked, sawFail>>

\* Variant of Stored: a failed fetch drops the entry of the key.
StoredOrDropped(old, r) == IF IsOk(r) THEN Some(r.val) ELSE None

\* The token the cache keeps for a key after a fetch returned r.
Stored(old, r) == IF IsOk(r) THEN Some(r.val) ELSE old

\* The callers a fetch by c answers: c and those that joined it.
Served(c) == {c} \cup {d \in Callers : pc[d] = "wait" /\ scopes[d] = scopes[c]}

\* TokenCache::get_token after the fetch closure of caller c returned r: a
\* token is stored, an error is not; the fetching caller and every caller
\* that joined the fetch return.
Deliver(c, r) ==
    /\ cache' = [cache EXCEPT ![scopes[c]] = Stored(@, r)]
    /\ fetching' = [fetching EXCEPT ![scopes[c]] = None]
    /\ pc' = [d \in Callers |-> IF d \in Served(c) THEN "idle" ELSE pc[d]]
    /\ scopes' = [d \in Callers |-> IF d \in Served(c) THEN <<>> ELSE scopes[d]]

\* Variant of Clear: only the expired entries are dropped.
ClearExpired ==
    /\ shared
    /\ cache' = [k \in ScopeSeqs |-> IF Valid(k) THEN cache[k] ELSE None]
    /\ cleared' = IF \E k \in ScopeSeqs : IsSome(fetching[k]) THEN "racy"
                  ELSE IF \E k \in ScopeSeqs : Valid(k) THEN "valid"
                  ELSE "idle"
    /\ last' = None
    /\ UNCHANGED <<config, locks, fetching, now, caller>>
    /\ UNCHANGED device

\* TokenCache::clear: every cached entry is dropped.  A fetch in flight is
\* not interrupted.
Clear ==
    /\ shared
    /\ cache' = [k \in ScopeSeqs |-> None]
    /\ cleared' = IF \E k \in ScopeSeqs : IsSome(fetching[k]) THEN "racy"
                  ELSE IF \E k \in ScopeSeqs : Valid(k) THEN "valid"
                  ELSE "idle"
    /\ last' = None
    /\ UNCHANGED <<config, locks, fetching, now, caller>>
    /\ UNCHANGED device

\* ------------------------------------------------- ChainedTokenCredential
\* Variant of TokenCredentialGetToken: the chain's own get_token is called
\* directly, without the cache.
UncachedGetToken(c, s) ==
    /\ shared
    /\ pc[c] = "idle"
    /\ pc' = [pc EXCEPT ![c] = "get_token"]
    /\ scopes' = [scopes EXCEPT ![c] = s]
    /\ cleared' = "no"
    /\ last' = None
    /\ UNCHANGED <<config, locks, cache, fetching, now, idx, errors, invoked, sawFail>>
    /\ UNCHANGED device

\* impl TokenCredential for ChainedTokenCredential: get_token goes through the
\* chain's TokenCache, with the chain's own get_token as the fetch closure.
TokenCredentialGetToken(c, s) ==
    /\ CacheGetToken(c, s)
    /\ UNCHANGED device

\* Variant of Unlock: only a read guard is dropped, a write guard is kept.
UnlockReaders(c) ==
    /\ readers' = readers \ {c}
    /\ writer' = writer

\* The guards of successful_credential held by c are dropped.
Unlock(c) ==
    /\ readers' = readers \ {c}
    /\ writer' = IF writer = Some(c) THEN None ELSE writer

\* The chain's get_token of caller c returns r to the cache, after the source
\* calls inv; `searched`: it ran get_token_impl.
Finish(c, r, inv, searched) ==
    /\ Deliver(c, r)
    /\ last' = Some(Event(Served(c), scopes[c], r, "fetch", inv, searched, sawFail[c]))
    /\ idx' = [idx EXCEPT ![c] = 0]
    /\ errors' = [errors EXCEPT ![c] = <<>>]
    /\ invoked' = [invoked EXCEPT ![c] = <<>>]
    /\ sawFail' = [d \in Callers |->
                     IF d = c THEN FALSE
                     ELSE IF searched /\ ~IsOk(r) /\ pc[d] \in {"get_token", "write"}
                     THEN TRUE
                     ELSE sawFail[d]]

\* Variant of Pinned: the source found is pinned under either policy.
PinnedAlways(src) == Some(src)

\* Variant of Pinned: the first configured source is pinned, whichever
\* source the search found.
PinnedFirst(src) == IF retry_sources THEN successful_credential ELSE Some(sources[1])

\* The slot after a search of get_token found `src`: line 101 pins it, the
\* retry_sources branch does not touch the slot.
Pinned(src) == IF retry_sources THEN successful_credential ELSE Some(src)

\* Variant of SourceAt: the sources are tried last to first.
SourceAtReversed(i) == sources[Len(sources) + 1 - i]

\* `for source in &self.sources`: the source of the i-th turn of the loop.
SourceAt(i) == sources[i]

\* Variant of PinnedSource: the first configured source is used.
FirstSource == sources[1]

\* `entry` of get_token: the source in the pinned slot.
PinnedSource == Unwrap(successful_credential)

\* get_token_impl is entered: with no source the for loop is empty and the
\* aggregate error is returned at once, otherwise the first source is next.
EnterImpl(c) ==
    IF sources = <<>>
    THEN Finish(c, Err(AggregateError(<<>>)), <<>>, TRUE)
    ELSE /\ pc' = [pc EXCEPT ![c] = "search"]
         /\ idx' = [idx EXCEPT ![c] = 1]
         /\ errors' = [errors EXCEPT ![c] = <<>>]
         /\ last' = None
         /\ UNCHANGED <<cache, fetching, scopes, invoked, sawFail>>

\* ChainedTokenCredential::get_token up to its first suspension: with
\* retry_sources the ordered search starts; otherwise the pinned slot is read
\* under the read lock, which stays held while the pinned source is called.
GetToken(c) ==
    /\ pc[c] = "get_token"
    /\ IF retry_sources
       THEN /\ EnterImpl(c)
            /\ UNCHANGED <<readers>>
       ELSE /\ writer = None
            /\ IF IsSome(successful_credential)
               THEN /\ readers' = readers \cup {c}
                    /\ pc' = [pc EXCEPT ![c] = "pinned_read"]
               ELSE /\ readers' = readers
                    /\ pc' = [pc EXCEPT ![c] = "write"]
            /\ last' = None
            /\ UNCHANGED <<cache, fetching, scopes, idx, errors, invoked, sawFail>>
    /\ UNCHANGED <<config, successful_credential, writer, now, cleared>>
    /\ UNCHANGED device

\* Variant of WriteLock: the slot is not checked again under the write lock.
WriteLockNoRecheck(c) ==
    /\ pc[c] = "write"
    /\ writer = None
    /\ readers = {}
    /\ EnterImpl(c)
    /\ writer' = IF sources = <<>> THEN None ELSE Some(c)
    /\ UNCHANGED <<config, successful_credential, readers, now, cleared>>
    /\ UNCHANGED device

\* Variant of WriteLock: the write lock is held for the re-check only and is
\* released before the search.
WriteLockBrief(c) ==
    /\ pc[c] = "write"
    /\ writer = None
    /\ readers = {}
    /\ IF IsSome(successful_credential)
       THEN /\ writer' = Some(c)
            /\ pc' = [pc EXCEPT ![c] = "pinned_write"]
            /\ last' = None
            /\ UNCHANGED <<cache, fetching, scopes, idx, errors, invoked, sawFail>>
       ELSE /\ EnterImpl(c)
            /\ writer' = None
    /\ UNCHANGED <<config, successful_credential, readers, now, cleared>>
    /\ UNCHANGED device

\* Variant of WriteLock: the first source is pinned when the search starts.
WriteLockEager(c) ==
    /\ pc[c] = "write"
    /\ writer = None
    /\ readers = {}
    /\ IF IsSome(successful_credential)
       THEN /\ writer' = Some(c)
            /\ pc' = [pc EXCEPT ![c] = "pinned_write"]
            /\ last' = None
            /\ UNCHANGED <<successful_credential, cache, fetching, scopes, idx, errors,
                           invoked, sawFail>>
       ELSE /\ EnterImpl(c)
            /\ writer' = IF sources = <<>> THEN None ELSE Some(c)
            /\ successful_credential' = IF sources = <<>> THEN None ELSE Some(sources[1])
    /\ UNCHANGED <<config, readers, now, cleared>>
    /\ UNCHANGED device

\* The write lock is acquired and the slot is checked again: a source pinned
\* meanwhile is used, otherwise the ordered search starts under the lock.
WriteLock(c) ==
    /\ pc[c] = "write"
    /\ writer = None
    /\ readers = {}
    /\ IF IsSome(successful_credential)
       THEN /\ writer' = Some(c)
            /\ pc' = [pc EXCEPT ![c] = "pinned_write"]
            /\ last' = None
            /\ UNCHANGED <<cache, fetching, scopes, idx, errors, invoked, sawFail>>
       ELSE /\ EnterImpl(c)
            /\ writer' = IF sources = <<>> THEN None ELSE Some(c)
    /\ UNCHANGED <<config, successful_credential, readers, now, cleared>>
    /\ UNCHANGED device

\* entry.get_token(scopes, options) on the pinned source returns; its result
\* is the result of get_token and the guard held is dropped.
PinnedGetToken(c) ==
    /\ pc[c] \in {"pinned_read", "pinned_write"}
    /\ \E r \in SourceOutcomes(PinnedSource, now) :
          Finish(c, r, Append(invoked[c], Call(PinnedSource, r)), FALSE)
    /\ Unlock(c)
    /\ UNCHANGED <<config, successful_credential, now, cleared>>
    /\ UNCHANGED device

\* One turn of the for loop of get_token_impl: the source's get_token returns.
\* Ok ends the search with this source's token (and pins the source when
\* sources are not retried); Err is pushed and the next source is tried, or,
\* after the last source, the aggregate error is returned.
SearchStep(c) ==
    /\ pc[c] = "search"
    /\ LET src == SourceAt(idx[c])
       IN \E r \in SourceOutcomes(src, now) :
            LET inv == Append(invoked[c], Call(src, r))
            IN IF IsOk(r)
               THEN /\ Finish(c, r, inv, TRUE)
                    /\ successful_credential' = Pinned(src)
                    /\ Unlock(c)
               ELSE LET errs == Append(errors[c], r.val)
                    IN /\ successful_credential' = successful_credential
                       /\ IF idx[c] = Len(sources)
                          THEN /\ Finish(c, Err(AggregateError(errs)), inv, TRUE)
                               /\ Unlock(c)
                          ELSE /\ idx' = [idx EXCEPT ![c] = @ + 1]
                               /\ errors' = [errors EXCEPT ![c] = errs]
                               /\ invoked' = [invoked EXCEPT ![c] = inv]
                               /\ last' = None
                               /\ UNCHANGED <<pc, scopes, cache, fetching, sawFail,
                                              readers, writer>>
    /\ UNCHANGED <<config, now, cleared>>
    /\ UNCHANGED device

\* ------------------------------------------------------------------- Next
Next ==
    \/ AddSource
    \/ Share
    \/ Tick
    \/ Clear
    \/ \E c \in Callers, s \in ScopeSeqs : TokenCredentialGetToken(c, s)
    \/ \E c \in Callers : GetToken(c)
    \/ \E c \in Callers : WriteLock(c)
    \/ \E c \in Callers : PinnedGetToken(c)
    \/ \E c \in Callers : SearchStep(c)

Spec == Init /\ [][Next]_vars

\* ------------------------------------------------------------ cancellation
\* Variant of Dropped: the guards are leaked (forgotten) with the future.
DroppedHolding(c) == UNCHANGED <<readers, writer>>

\* The future of the call of c is dropped: the guards of successful_credential
\* it owns (the temporary of line 92, `lock` of line 95) are dropped with it.
Dropped(c) == Unlock(c)

\* The call of c is abandoned at a suspension point: waiting for a fetch in
\* flight, for the read or the write lock, or for a source to answer.  Its
\* locals are dropped; it stored nothing and stores nothing.  The fetch it
\* was running, if any, is no longer in flight.  History: "cancel" for a call
\* abandoned inside the fetch closure, "cancel_wait" for one that waited.
Cancel(c) ==
    /\ pc[c] # "idle"
    /\ Dropped(c)
    /\ fetching' = [k \in ScopeSeqs |-> IF fetching[k] = Some(c) THEN None ELSE fetching[k]]
    /\ pc' = [pc EXCEPT ![c] = "idle"]
    /\ scopes' = [scopes EXCEPT ![c] = <<>>]
    /\ idx' = [idx EXCEPT ![c] = 0]
    /\ errors' = [errors EXCEPT ![c] = <<>>]
    /\ invoked' = [invoked EXCEPT ![c] = <<>>]
    /\ sawFail' = [sawFail EXCEPT ![c] = FALSE]
    /\ last' = Some(Event({c}, scopes[c], None,
                          IF pc[c] = "wait" THEN "cancel_wait" ELSE "cancel",
                          invoked[c], pc[c] = "search", sawFail[c]))
    /\ UNCHANGED <<config, successful_credential, cache, now, cleared>>
    /\ UNCHANGED device

\* A caller that waits for a fetch that was abandoned runs the fetch itself.
Rejoin(c) ==
    /\ pc[c] = "wait"
    /\ fetching[scopes[c]] = None
    /\ fetching' = [fetching EXCEPT ![scopes[c]] = Some(c)]
    /\ pc' = [pc EXCEPT ![c] = "get_token"]
    /\ last' = None
    /\ UNCHANGED <<config, locks, cache, now, scopes, idx, errors, invoked, sawFail, cleared>>
    /\ UNCHANGED device

\* The steps of the calls in progress.
CallStep ==
    \/ \E c \in Callers : GetToken(c)
    \/ \E c \in Callers : WriteLock(c)
    \/ \E c \in Callers : PinnedGetToken(c)
    \/ \E c \in Callers : SearchStep(c)
    \/ \E c \in Callers : Rejoin(c)

NextCancel ==
    \/ AddSource
    \/ Share
    \/ Clear
    \/ \E c \in Callers, s \in ScopeSeqs : TokenCredentialGetToken(c, s)
    \/ CallStep
    \/ \E c \in Callers : Cancel(c)

\* The chain with callers that may abandon their calls, at one instant of the
\* clock (tokens are issued expired or still valid).
CancelSpec == Init /\ [][NextCancel]_vars

\* --------------------------------------------------- DeviceCodeCredential
\* (src/src/devicecode_credentials.rs) wrapped by its own TokenCache: the
\* cache, the clock and the callers are those above, the fetch closure is
\* get_access_token.

\* Option<TokenRequestOptions>
Options == {None, Some("options")}

\* Variant of CacheKey: every request uses one slot.
CacheKeyNone(s, o) == <<>>

\* The cache slot of a request: its scopes, whatever its options.
CacheKey(s, o) == s

\* The refresh tokens the identity provider may issue for scopes s.
RefreshTokensFor(s) == {[scopes |-> s, id |-> i] : i \in {"r1", "r2"}}

\* fn convert_expires_in: now_utc() + seconds.
convert_expires_in(seconds) == now + seconds

\* The expires_in of a response (kept within the clock's range).
ExpiresIn == 0..(MaxTime - now)

\* What exchange() may return for a refresh token issued for scopes s: a
\* RefreshTokenResponse, or an error.
ExchangeOutcomes(s) ==
    { Ok([access_token |-> [scopes |-> s], expires_in |-> e, refresh_token |-> n]) :
        e \in ExpiresIn, n \in RefreshTokensFor(s) }
    \cup { Err(Error("Credential", <<"invalid_grant">>)) }

\* What start() may return: the flow, or an error.
StartOutcomes == { Ok("flow"), Err(Error("Io", <<"connection refused">>)) }

\* The successful responses of the stream of a flow for scopes s.
Authorizations(s) ==
    { [access_token |-> [scopes |-> s], expires_in |-> e, refresh_token |-> r] :
        e \in ExpiresIn, r \in {None} \cup {Some(n) : n \in RefreshTokensFor(s)} }

\* What stream.next() may return after n error responses: the end of the
\* stream, a successful response, or (at most MaxPolls times) an error
\* response, given while the user has not finished.
StreamOutcomes(s, n) ==
    {None} \cup {Some(Ok(auth)) : auth \in Authorizations(s)}
    \cup (IF n < MaxPolls THEN {Some(Err("authorization_pending"))} ELSE {})

\* DeviceCodeCredential::new: the credential is returned in an Arc, with an
\* empty cache and no refresh token.
DeviceCodeInit ==
    /\ retry_sources = FALSE
    /\ sources = <<>>
    /\ shared = TRUE
    /\ successful_credential = None
    /\ readers = {}
    /\ writer = None
    /\ cache = [k \in ScopeSeqs |-> None]
    /\ fetching = [k \in ScopeSeqs |-> None]
    /\ now = 0
    /\ pc = [c \in Callers |-> "idle"]
    /\ scopes = [c \in Callers |-> <<>>]
    /\ idx = [c \in Callers |-> 0]
    /\ errors = [c \in Callers |-> <<>>]
    /\ invoked = [c \in Callers |-> <<>>]
    /\ sawFail = [c \in Callers |-> FALSE]
    /\ cleared = "no"
    /\ last = None
    /\ request = [c \in Callers |-> None]
    /\ refresh_tokens = [s \in ScopeSeqs |-> None]
    /\ mutex = None
    /\ skipped = [c \in Callers |-> 0]

\* impl TokenCredential for DeviceCodeCredential: get_token(scopes, options)
\* goes through the credential's TokenCache, with get_access_token as the
\* fetch closure.
DeviceCodeGetToken(c, s, o) ==
    /\ CacheGetToken(c, CacheKey(s, o))
    /\ request' = [request EXCEPT ![c] =
                      IF Valid(CacheKey(s, o)) THEN None
                      ELSE Some([scopes |-> s, options |-> o])]
    /\ UNCHANGED <<refresh_tokens, mutex, skipped>>

\* get_access_token of caller c returns r to the cache: the guard of
\* refresh_tokens is dropped.
DeviceCodeFinish(c, r, inv) ==
    /\ Deliver(c, r)
    /\ last' = Some(Event(Served(c), scopes[c], r, "fetch", inv, FALSE, FALSE))
    /\ mutex' = IF mutex = Some(c) THEN None ELSE mutex
    /\ request' = [d \in Callers |-> IF d \in Served(c) THEN None ELSE request[d]]
    /\ invoked' = [invoked EXCEPT ![c] = <<>>]
    /\ skipped' = [skipped EXCEPT ![c] = 0]

\* Variant of Removed: the refresh token is read and left in the map.
Peeked(map, s) == map

\* BTreeMap::remove: the map without the entry of s.
Removed(map, s) == [map EXCEPT ![s] = None]

\* Variant of GetAccessToken: the map is used without taking its lock.
GetAccessTokenUnlocked(c) ==
    /\ pc[c] = "get_token"
    /\ LET s == Unwrap(request[c]).scopes
           rt == refresh_tokens[s]
       IN /\ mutex' = Some(c)
          /\ refresh_tokens' = Removed(refresh_tokens, s)
          /\ invoked' = [invoked EXCEPT ![c] = <<Call("remove", rt)>>]
          /\ pc' = [pc EXCEPT ![c] = IF IsSome(rt) THEN "exchange" ELSE "start"]
    /\ last' = None
    /\ UNCHANGED <<config, locks, cache, fetching, now, scopes, idx, errors, sawFail,
                   cleared, request, skipped>>

\* get_access_token up to its second suspension: the lock of refresh_tokens
\* is acquired and the refresh token stored for the scopes is removed from
\* the map; with one the exchange is called, without one the flow is started.
GetAccessToken(c) ==
    /\ pc[c] = "get_token"
    /\ mutex = None
    /\ LET s == Unwrap(request[c]).scopes
           rt == refresh_tokens[s]
       IN /\ mutex' = Some(c)
          /\ refresh_tokens' = Removed(refresh_tokens, s)
          /\ invoked' = [invoked EXCEPT ![c] = <<Call("remove", rt)>>]
          /\ pc' = [pc EXCEPT ![c] = IF IsSome(rt) THEN "exchange" ELSE "start"]
    /\ last' = None
    /\ UNCHANGED <<config, locks, cache, fetching, now, scopes, idx, errors, sawFail,
                   cleared, request, skipped>>

\* exchange(..).await returns: an error is returned as it is (`?`); a
\* response gives the token, and its refresh token is stored for the scopes.
Exchange(c) ==
    /\ pc[c] = "exchange"
    /\ LET s == Unwrap(request[c]).scopes
       IN \E r \in ExchangeOutcomes(s) :
            LET inv == Append(invoked[c], Call("exchange", r))
            IN IF IsOk(r)
               THEN /\ refresh_tokens' =
                          [refresh_tokens EXCEPT ![s] = Some(r.val.refresh_token)]
                    /\ DeviceCodeFinish(c,
                          Ok(AccessToken(r.val.access_token,
                                         convert_expires_in(r.val.expires_in))), inv)
               ELSE /\ refresh_tokens' = refresh_tokens
                    /\ DeviceCodeFinish(c, r, inv)
    /\ UNCHANGED <<config, locks, now, idx, errors, sawFail, cleared>>

\* start(..).await returns: an error is returned as it is (`?`); otherwise
\* the stream of the flow is polled.
Start(c) ==
    /\ pc[c] = "start"
    /\ \E r \in StartOutcomes :
          LET inv == Append(invoked[c], Call("start", r))
          IN IF IsOk(r)
             THEN /\ pc' = [pc EXCEPT ![c] = "poll"]
                  /\ invoked' = [invoked EXCEPT ![c] = inv]
                  /\ last' = None
                  /\ UNCHANGED <<cache, fetching, scopes, mutex, request, skipped>>
             ELSE DeviceCodeFinish(c, r, inv)
    /\ UNCHANGED <<config, locks, now, idx, errors, sawFail, cleared, refresh_tokens>>

\* Variant of StreamNext: an error response ends the wait loop and is
\* returned, as with `?`.
StreamNextFailFast(c) ==
    /\ pc[c] = "poll"
    /\ LET s == Unwrap(request[c]).scopes
       IN \E response \in StreamOutcomes(s, skipped[c]) :
            LET inv == Append(invoked[c], Call("next", response))
            IN IF response = None
               THEN /\ DeviceCodeFinish(c,
                          Err(Error("Credential", <<"device code did not return a response">>)),
                          inv)
                    /\ refresh_tokens' = refresh_tokens
               ELSE IF ~IsOk(Unwrap(response))
               THEN /\ DeviceCodeFinish(c, Unwrap(response), inv)
                    /\ refresh_tokens' = refresh_tokens
               ELSE LET auth == Unwrap(response).val
                    IN /\ refresh_tokens' =
                             IF IsSome(auth.refresh_token)
                             THEN [refresh_tokens EXCEPT ![s] = auth.refresh_token]
                             ELSE refresh_tokens
                       /\ DeviceCodeFinish(c,
                             Ok(AccessToken(auth.access_token,
                                            convert_expires_in(auth.expires_in))), inv)
    /\ UNCHANGED <<config, locks, now, idx, errors, sawFail, cleared>>

\* One turn of the wait loop: stream.next().await returns.  The end of the
\* stream ends the call with an error; an error response is skipped; a
\* successful response gives the token, and its refresh token, if it has one,
\* is stored for the scopes.
StreamNext(c) ==
    /\ pc[c] = "poll"
    /\ LET s == Unwrap(request[c]).scopes
       IN \E response \in StreamOutcomes(s, skipped[c]) :
            LET inv == Append(invoked[c], Call("next", response))
            IN IF response = None
               THEN /\ DeviceCodeFinish(c,
                          Err(Error("Credential", <<"device code did not return a response">>)),
                          inv)
                    /\ refresh_tokens' = refresh_tokens
               ELSE IF ~IsOk(Unwrap(response))
               THEN /\ skipped' = [skipped EXCEPT ![c] = @ + 1]
                    /\ invoked' = [invoked EXCEPT ![c] = inv]
                    /\ last' = None
                    /\ UNCHANGED <<cache, fetching, pc, scopes, mutex, request,
                                   refresh_tokens>>
               ELSE LET auth == Unwrap(response).val
                    IN /\ refresh_tokens' =
                             IF IsSome(auth.refresh_token)
                             THEN [refresh_tokens EXCEPT ![s] = auth.refresh_token]
                             ELSE refresh_tokens
                       /\ DeviceCodeFinish(c,
                             Ok(AccessToken(auth.access_token,
                                            convert_expires_in(auth.expires_in))), inv)
    /\ UNCHANGED <<config, locks, now, idx, errors, sawFail, cleared>>

DeviceCodeNext ==
    \/ Tick
    \/ \E c \in Callers, s \in ScopeSeqs, o \in Options : DeviceCodeGetToken(c, s, o)
    \/ \E c \in Callers : GetAccessToken(c)
    \/ \E c \in Callers : Exchange(c)
    \/ \E c \in Callers : Start(c)
    \/ \E c \in Callers : StreamNext(c)

DeviceCodeSpec == DeviceCodeInit /\ [][DeviceCodeNext]_vars

\* The positions of a caller inside get_access_token, the lock held.
Acquiring(c) == pc[c] \in {"exchange", "start", "poll"}

\* ---------------------------------------------------------------- fairness
\* The next step of the call of c inside the chain's get_token.
Step(c) == GetToken(c) \/ WriteLock(c) \/ PinnedGetToken(c) \/ SearchStep(c)

\* Every source call that was made returns, and the lock of the pinned slot
\* is fair: a caller that waits for it while it is released again and again
\* gets it.  (A step that waits for a source stays enabled until it is taken;
\* a step that waits for the lock is enabled whenever the lock is free.)
Fairness == \A c \in Callers : SF_vars(Step(c))

\* The steps of the chain, its cache and its callers at one instant of the
\* clock (tokens are issued expired or still valid).
NextNow ==
    \/ AddSource
    \/ Share
    \/ Clear
    \/ \E c \in Callers, s \in ScopeSeqs : TokenCredentialGetToken(c, s)
    \/ \E c \in Callers : GetToken(c)
    \/ \E c \in Callers : WriteLock(c)
    \/ \E c \in Callers : PinnedGetToken(c)
    \/ \E c \in Callers : SearchStep(c)

FairSpec == Init /\ [][NextNow]_vars /\ Fairness

\* The positions of a caller inside the chain's own get_token.
InChain(c) == pc[c] \in {"get_token", "write", "pinned_read", "pinned_write", "search"}

TypeOK ==
    /\ retry_sources \in BOOLEAN
    /\ Len(sources) <= MaxSources
    /\ now \in 0..MaxTime
    /\ cleared \in {"no", "racy", "valid", "idle"}
    /\ \A c \in Callers : pc[c] = "idle" \/ pc[c] = "wait" \/ InChain(c) \/ Acquiring(c)
    /\ \A c \in Callers : skipped[c] \in 0..MaxPolls

\* ----------------------------------------------------------------- claims
\* The call(s) that returned in the last step.
Ev == Unwrap(last)
\* ... returned from a fetch (the chain's own get_token ran).
Fetched == IsSome(last) /\ Ev.how = "fetch"
\* ... returned from an ordered search (get_token_impl ran).
Searched == Fetched /\ Ev.ranSearch

\* C1: an ordered search calls the sources in the order they were added, each
\* at most once, and stops at the first that succeeds: while it runs, the calls
\* made so far are the first idx-1 sources, all failed; when it returns, every
\* call but the last failed, a token returned is the token of the last source
\* called (so no source behind it was called), and the search fails only after
\* every source was called and failed.
C1_OrderedSearch ==
    /\ \A c \in Callers : pc[c] = "search" =>
          /\ Len(invoked[c]) = idx[c] - 1
          /\ idx[c] <= Len(sources)
          /\ \A i \in 1..Len(invoked[c]) :
                invoked[c][i].src = sources[i] /\ ~IsOk(invoked[c][i].res)
    /\ Searched =>
          LET inv == Ev.invoked
              n == Len(inv)
          IN /\ n <= Len(sources)
             /\ \A i \in 1..n : inv[i].src = sources[i]
             /\ \A i \in 1..(n - 1) : ~IsOk(inv[i].res)
             /\ IF IsOk(Ev.result)
                THEN n >= 1 /\ inv[n].res = Ev.result
                ELSE n = Len(sources) /\ \A i \in 1..n : ~IsOk(inv[i].res)

\* A search over at least two sources returned the token of the second, the
\* first having failed.
C1_Witness ==
    /\ Searched
    /\ Len(sources) >= 2
    /\ Len(Ev.invoked) = 2
    /\ IsOk(Ev.result)
    /\ Ev.result.val.token = sources[2]

\* C2: with retry_sources = false, a call that reaches the chain when source B
\* is pinned calls B once and nothing else, runs no ordered search, returns
\* B's own result (its token, or its error as it is), and leaves B pinned.
C2_PinnedOnly ==
    (~retry_sources /\ Fetched /\ IsSome(Ev.pinBefore)) =>
        /\ ~Ev.ranSearch
        /\ Ev.invoked = <<Call(Unwrap(Ev.pinBefore), Ev.result)>>
        /\ Ev.result \in SourceOutcomes(Unwrap(Ev.pinBefore), now)
        /\ successful_credential = Ev.pinBefore

\* The pinned source failed and a later source was configured: the caller got
\* the pinned source's error.
C2_Witness ==
    /\ ~retry_sources
    /\ Fetched
    /\ IsSome(Ev.pinBefore)
    /\ Unwrap(Ev.pinBefore) < Len(sources)
    /\ ~IsOk(Ev.result)

\* C3 (as stated): of the concurrent first calls on a retry_sources = false
\* chain only one runs the ordered search, whether the search succeeds or
\* fails: a call that was inside the chain's get_token while another caller's
\* search failed does not run the search itself.
C3_SearchOnce ==
    (~retry_sources /\ sources # <<>> /\ Fetched /\ Ev.sawFail) => ~Ev.ranSearch

\* C3 (amended): with retry_sources = false a search runs only under the write
\* lock and only while the slot is empty, and a search that succeeds fills the
\* slot with the source it found: at most one search runs at a time, at most
\* one search succeeds, and a call that finds the slot filled runs no search.
C3_OneSuccessfulSearch ==
    ~retry_sources =>
        /\ \A c \in Callers : pc[c] = "search" =>
              successful_credential = None /\ writer = Some(c)
        /\ (Searched /\ IsOk(Ev.result)) =>
              /\ Ev.pinBefore = None
              /\ successful_credential = Some(Ev.result.val.token)
        /\ (Fetched /\ IsSome(Ev.pinBefore)) => ~Ev.ranSearch

\* A search has just succeeded while another caller, that found the slot empty
\* before, waits for the write lock.
C3_Witness ==
    /\ ~retry_sources
    /\ Searched
    /\ IsOk(Ev.result)
    /\ \E d \in Callers : pc[d] = "write"

\* C4: single flight.  At most one caller per key runs the fetch closure, it is
\* the one recorded for the key, callers wait only for a fetch in flight, and a
\* fetch is in flight only while the key has no valid token; when the fetch
\* returns, no caller is left waiting for the key, every caller it answers
\* receives its result, and a token it returned is the one cached.
C4_SingleFlight ==
    /\ \A k \in ScopeSeqs :
          LET running == {c \in Callers : InChain(c) /\ scopes[c] = k}
              waiting == {c \in Callers : pc[c] = "wait" /\ scopes[c] = k}
          IN /\ Cardinality(running) <= 1
             /\ \A c \in running : fetching[k] = Some(c)
             /\ IsSome(fetching[k]) => Unwrap(fetching[k]) \in running
             /\ waiting # {} => IsSome(fetching[k])
             /\ IsSome(fetching[k]) => ~Valid(k)
    /\ Fetched =>
          /\ fetching[Ev.scopes] = None
          /\ \A c \in Callers : ~(pc[c] = "wait" /\ scopes[c] = Ev.scopes)
          /\ \A c \in Ev.callers : pc[c] = "idle"
          /\ Ev.result = Ev.fetched
          /\ IsOk(Ev.fetched) => cache[Ev.scopes] = Some(Ev.fetched.val)

\* One fetch answered two callers with its token.
C4_Witness ==
    /\ Fetched
    /\ Cardinality(Ev.callers) >= 2
    /\ IsOk(Ev.result)

\* C5: when every source failed, the search fails with one error of kind
\* Credential whose text is the header followed by one line per source, in
\* configuration order, the line of a source being the messages of its error's
\* whole cause chain joined by " - ".
C5_AggregateError ==
    (Searched /\ ~IsOk(Ev.fetched)) =>
        LET err == Ev.fetched.val
            text == err.stack[1]
            body == SubSeq(text, Len(AggregateHeader) + 1, Len(text))
            lines == IF body = "" THEN <<>> ELSE SplitOn(body, "\n")
        IN /\ err.kind = "Credential"
           /\ Len(err.stack) = 1
           /\ SubSeq(text, 1, Len(AggregateHeader)) = AggregateHeader
           /\ Len(lines) = Len(sources)
           /\ \A i \in 1..Len(lines) :
                 /\ Ev.invoked[i].src = sources[i]
                 /\ SplitOn(lines[i], " - ") = Ev.invoked[i].res.val.stack

\* Two sources failed, the second with a chain of causes.
C5_Witness ==
    /\ Searched
    /\ ~IsOk(Ev.fetched)
    /\ Len(sources) >= 2
    /\ Len(Ev.invoked[2].res.val.stack) >= 2

\* C6: with retry_sources = true the pinned slot stays empty and its lock is
\* never taken, and every call that reaches the chain runs the ordered search,
\* starting with the first configured source.
C6_RetryNeverPins ==
    retry_sources =>
        /\ successful_credential = None
        /\ readers = {}
        /\ writer = None
        /\ \A c \in Callers : pc[c] \notin {"write", "pinned_read", "pinned_write"}
        /\ Fetched =>
              /\ Ev.ranSearch
              /\ Ev.pinBefore = None
              /\ sources # <<>> => Ev.invoked[1].src = sources[1]

\* A search under retry_sources = true succeeded at the second source.
C6_Witness ==
    /\ retry_sources
    /\ Searched
    /\ IsOk(Ev.result)
    /\ Len(Ev.invoked) = 2

\* C7: expiry.  A call answered from the cache gets the cached token as it is,
\* strictly before its expiry, with no source called and the entry untouched;
\* and a call that was not answered at once (it fetches, or waits for a fetch)
\* has no valid token cached for its key: a token is served from the cache to
\* every call before its expiry and to none at or after it.
C7_Expiry ==
    /\ (IsSome(last) /\ Ev.how = "hit") =>
          /\ Ev.result = Ok(Unwrap(Ev.cachedBefore))
          /\ now < Ev.result.val.expires_on
          /\ cache[Ev.scopes] = Ev.cachedBefore
          /\ Ev.invoked = <<>>
    /\ \A c \in Callers : pc[c] # "idle" => ~Valid(scopes[c])

\* A token was served from the cache at the last instant before its expiry.
C7_Witness ==
    /\ IsSome(last)
    /\ Ev.how = "hit"
    /\ Ev.result.val.expires_on = now + 1

\* C8: when the fetch fails the entry of the key is left as it was, the callers
\* of that fetch receive its error as it is, the sources were called at most
\* once each, and the key has no valid token and no fetch in flight, so that
\* the next call for the key runs the fetch again.
C8_FetchFailure ==
    (Fetched /\ ~IsOk(Ev.fetched)) =>
        /\ cache[Ev.scopes] = Ev.cachedBefore
        /\ Ev.result = Ev.fetched
        /\ Len(Ev.invoked) <= (IF Ev.ranSearch THEN Len(sources) ELSE 1)
        /\ ~Valid(Ev.scopes)
        /\ fetching[Ev.scopes] = None

\* A fetch failed for a key that had an expired token cached, with a second
\* caller waiting for it.
C8_Witness ==
    /\ Fetched
    /\ ~IsOk(Ev.fetched)
    /\ IsSome(Ev.cachedBefore)
    /\ Cardinality(Ev.callers) >= 2

\* C9 (as stated): clear() forgets the pinned source: after a clear() that
\* found no call in progress, until the next call starts, the pinned slot of a
\* retry_sources = false chain is empty, so that the next call runs the
\* ordered search.
C9_ClearForgetsPin ==
    (~retry_sources /\ cleared \in {"idle", "valid"}) => successful_credential = None

\* C10 (as stated): the first call that starts after clear() is never answered
\* from the cache.
C10_NextCallFetches ==
    (IsSome(last) /\ Ev.how = "hit") => Ev.cleared = "no"

\* C10 (amended): after a clear() that found no fetch in flight, and until the
\* next call starts, no key has a cached token and no fetch is in flight, and
\* the first call after it is not answered from the cache: it runs the fetch.
C10_ClearEmpties ==
    /\ cleared \in {"idle", "valid"} =>
          \A k \in ScopeSeqs : cache[k] = None /\ fetching[k] = None
    /\ (IsSome(last) /\ Ev.how = "hit") => Ev.cleared \notin {"idle", "valid"}

\* clear() has just dropped a token that was still valid, with no fetch in
\* flight.
C10_Witness == cleared = "valid"

\* C11: while a valid token is cached for the scopes asked for, a call on the
\* chain is answered with that token by the chain's TokenCache alone, under
\* either policy: it never enters the chain's own get_token (no caller in there
\* has a valid token cached for its scopes), so it reads no pinned slot, takes
\* no lock and calls no source, and the slot is left as it was.
C11_CacheShortCircuit ==
    /\ \A c \in Callers : InChain(c) => ~Valid(scopes[c])
    /\ (IsSome(last) /\ Ev.how = "hit") =>
          /\ Ev.result = Ok(Unwrap(Ev.cachedBefore))
          /\ Ev.invoked = <<>>
          /\ ~Ev.ranSearch
          /\ successful_credential = Ev.pinBefore
          /\ \A c \in Ev.callers :
                pc[c] = "idle" /\ c \notin readers /\ writer # Some(c)

\* A call was answered from the cache of a retry_sources = false chain that
\* has a source pinned and a later source configured.
C11_Witness ==
    /\ ~retry_sources
    /\ IsSome(last)
    /\ Ev.how = "hit"
    /\ IsSome(successful_credential)
    /\ Len(sources) >= 2

\* C12: abandoned calls corrupt nothing.  Every guard of the pinned slot is
\* held by a call in progress that is where the code holds it, and every fetch
\* in flight is run by a call in progress; the step that abandons a call
\* leaves the caller with no lock, caches no token and pins no source, and
\* leaves no fetch in flight for a key the abandoned call was fetching, so
\* that the next call for the key fetches anew; and whenever calls are in
\* progress, one of them can take its next step.
C12_Cancellation ==
    /\ \A c \in Callers :
          /\ c \in readers => pc[c] = "pinned_read"
          /\ writer = Some(c) => pc[c] \in {"search", "pinned_write"}
    /\ \A k \in ScopeSeqs : IsSome(fetching[k]) =>
          InChain(Unwrap(fetching[k])) /\ scopes[Unwrap(fetching[k])] = k
    /\ (IsSome(last) /\ Ev.how \in {"cancel", "cancel_wait"}) =>
          /\ cache[Ev.scopes] = Ev.cachedBefore
          /\ successful_credential = Ev.pinBefore
          /\ \A c \in Ev.callers :
                /\ pc[c] = "idle"
                /\ c \notin readers
                /\ writer # Some(c)
                /\ \A k \in ScopeSeqs : fetching[k] # Some(c)
          /\ Ev.how = "cancel" => fetching[Ev.scopes] = None /\ ~Valid(Ev.scopes)
    /\ (\E c \in Callers : pc[c] # "idle") => ENABLED CallStep

\* A call was abandoned during its ordered search, under the write lock,
\* after a source had failed, while another caller waits for that lock or
\* for the abandoned fetch.
C12_Witness ==
    /\ ~retry_sources
    /\ IsSome(last)
    /\ Ev.how = "cancel"
    /\ Ev.ranSearch
    /\ Len(Ev.invoked) >= 1
    /\ \E d \in Callers : pc[d] \in {"write", "wait"}

\* C13: the cache is keyed on the scope sequence alone.  The slot of a
\* request is its scope sequence whatever its options, the empty sequence
\* included; of the calls in progress for one scope sequence at most one runs
\* the fetch and the others wait for it, even when their options differ; and a
\* slot only ever holds, and a call is only ever answered with, a token issued
\* for the scope sequence asked for.  The refresh tokens of the device-code
\* credential are keyed the same way.
C13_KeyedOnScopes ==
    /\ DOMAIN cache = ScopeSeqs
    /\ \A c \in Callers : IsSome(request[c]) =>
          /\ pc[c] # "idle"
          /\ scopes[c] = Unwrap(request[c]).scopes
    /\ \A c, d \in Callers :
          (/\ c # d
           /\ IsSome(request[c])
           /\ IsSome(request[d])
           /\ Unwrap(request[c]).scopes = Unwrap(request[d]).scopes)
          => (pc[c] = "wait" \/ pc[d] = "wait")
    /\ \A k \in ScopeSeqs :
          /\ IsSome(cache[k]) => Unwrap(cache[k]).token.scopes = k
          /\ IsSome(refresh_tokens[k]) => Unwrap(refresh_tokens[k]).scopes = k
    /\ (IsSome(last) /\ IsOk(Ev.result)) => Ev.result.val.token.scopes = Ev.scopes

\* The slot of the empty scope sequence holds a valid token, and of two calls
\* for the scopes <<"a">> with different options one runs the fetch and the
\* other waits for it.
C13_Witness ==
    /\ Valid(<<>>)
    /\ cache[<<"a">>] = None
    /\ \E c, d \in Callers :
          /\ Acquiring(c)
          /\ pc[d] = "wait"
          /\ Unwrap(request[c]).scopes = <<"a">>
          /\ Unwrap(request[d]).scopes = <<"a">>
          /\ Unwrap(request[c]).options # Unwrap(request[d]).options

\* C14: with retry_sources = false the slot is written only by a search
\* that succeeded.  While a search runs the slot is empty; a search that fails
\* has called every source, returns the aggregate error of their errors and
\* leaves the slot empty; the slot differs from what a returning call found
\* only if that call's search succeeded; and a call that reaches the chain
\* with the slot empty runs the ordered search, from the first source.
C14_PinOnlyOnSuccess ==
    ~retry_sources =>
        /\ \A c \in Callers : pc[c] = "search" => successful_credential = None
        /\ (Searched /\ ~IsOk(Ev.fetched)) =>
              /\ Ev.pinBefore = None
              /\ successful_credential = None
              /\ Len(Ev.invoked) = Len(sources)
              /\ Ev.fetched =
                    Err(AggregateError([i \in 1..Len(Ev.invoked) |-> Ev.invoked[i].res.val]))
        /\ (Fetched /\ successful_credential # Ev.pinBefore) =>
              Ev.ranSearch /\ IsOk(Ev.fetched)
        /\ (Fetched /\ Ev.pinBefore = None) =>
              /\ Ev.ranSearch
              /\ sources # <<>> => Ev.invoked[1].src = sources[1]

\* A search over two sources has just failed, leaving the slot empty, while
\* another caller waits for the write lock to search in its turn.
C14_Witness ==
    /\ ~retry_sources
    /\ Searched
    /\ ~IsOk(Ev.fetched)
    /\ Len(sources) >= 2
    /\ successful_credential = None
    /\ \E d \in Callers : pc[d] = "write"

\* C15: no coordination failure.  When every source call returns and the
\* lock of the pinned slot is fair, every call of get_token returns, whatever
\* the number of callers and the interleaving: no caller stays for ever
\* waiting for the fetch of another, for the read lock or for the write lock.
\* (Every caller is again and again between two calls, which says the same as
\* "a caller inside a call leads to that caller outside it".)
C15_EveryCallReturns ==
    \A c \in Callers : []<>(pc[c] = "idle")

\* One caller runs its search under the write lock, at the second source,
\* while another has found the slot empty and waits for the write lock.
C15_Witness ==
    /\ ~retry_sources
    /\ \E c, d \in Callers :
          /\ pc[c] = "search"
          /\ writer = Some(c)
          /\ idx[c] = 2
          /\ pc[d] = "write"

\* C16: pin invariant.  In every state the slot is empty or holds one of
\* the configured sources; the step that fills it is the return of an ordered
\* search that succeeded, and the source it holds is the one that search
\* stopped at: the first in configuration order that succeeded in it, every
\* source before it having failed; and no step changes or empties a slot
\* that is filled.
C16_PinInvariant ==
    /\ [](/\ IsSome(successful_credential) =>
               \E i \in 1..Len(sources) : successful_credential = Some(sources[i])
          /\ (Fetched /\ successful_credential # Ev.pinBefore) =>
               LET n == Len(Ev.invoked)
               IN /\ Ev.pinBefore = None
                  /\ Ev.ranSearch
                  /\ IsOk(Ev.fetched)
                  /\ successful_credential = Some(sources[n])
                  /\ Ev.invoked[n].res = Ev.fetched
                  /\ \A i \in 1..(n - 1) :
                        Ev.invoked[i].src = sources[i] /\ ~IsOk(Ev.invoked[i].res))
    /\ [][/\ IsSome(successful_credential) =>
               successful_credential' = successful_credential
          /\ successful_credential' # successful_credential =>
               IsSome(last') /\ last'[1].how = "fetch"]_vars

\* The second source is pinned by a search in which the first failed, and a
\* call has since been answered by the pinned source.
C16_Witness ==
    /\ Len(sources) >= 2
    /\ successful_credential = Some(sources[2])
    /\ Fetched
    /\ Ev.pinBefore = Some(sources[2])

\* C17: with retry_sources = false the write lock of the slot is held for
\* the whole ordered search: the caller that searches holds it, nobody holds
\* a read guard, and no other caller, whatever its scopes, is in a source call
\* made through the chain's get_token (a second search, or a call of the
\* pinned source).
C17_ExclusiveSearch ==
    ~retry_sources =>
        \A c \in Callers : pc[c] = "search" =>
            /\ writer = Some(c)
            /\ readers = {}
            /\ \A d \in Callers \ {c} :
                  pc[d] \notin {"search", "pinned_read", "pinned_write"}

\* A caller searches, at the second source, while a caller for other scopes
\* is inside the chain's get_token and waits for the lock.
C17_Witness ==
    /\ ~retry_sources
    /\ \E c, d \in Callers :
          /\ pc[c] = "search"
          /\ idx[c] = 2
          /\ pc[d] \in {"get_token", "write"}
          /\ scopes[d] # scopes[c]

\* C18: a chain with no sources, under either policy: every call that returns
\* has run the ordered search, which called nothing, and fails with the
\* aggregate error of kind Credential whose text is the header alone (no
\* source error follows it); no token is returned or cached, no source call
\* is ever in progress and the slot stays empty.
C18_NoSources ==
    (shared /\ sources = <<>>) =>
        /\ successful_credential = None
        /\ \A k \in ScopeSeqs : cache[k] = None
        /\ \A c \in Callers : pc[c] \notin {"search", "pinned_read", "pinned_write"}
        /\ IsSome(last) =>
              /\ Ev.how = "fetch"
              /\ Ev.ranSearch
              /\ Ev.invoked = <<>>
              /\ Ev.result = Err(Error("Credential", <<AggregateHeader>>))
              /\ Ev.result = Err(AggregateError(<<>>))

\* A call on a retry_sources = false chain with no sources has failed, and
\* with it the call that waited for its fetch.
C18_Witness ==
    /\ shared
    /\ sources = <<>>
    /\ ~retry_sources
    /\ Fetched
    /\ Cardinality(Ev.callers) >= 2

\* C19: refresh tokens of the device-code credential.  The acquisition for
\* scopes S first takes the refresh token stored for S out of the map.  With
\* one, it calls the exchange and nothing else (no flow is started): a response
\* gives the token returned, expiring expires_in from now, and its refresh
\* token is then the one stored for S; an error is returned as it is and
\* nothing is stored for S.  Without one, it starts a device-code flow: so
\* does the acquisition for S that follows a failed exchange.
C19_RefreshTokens ==
    /\ \A c \in Callers :
          /\ pc[c] = "exchange" =>
                /\ Len(invoked[c]) = 1
                /\ IsSome(invoked[c][1].res)
                /\ refresh_tokens[Unwrap(request[c]).scopes] = None
          /\ pc[c] \in {"start", "poll"} => invoked[c][1] = Call("remove", None)
    /\ Fetched =>
          LET inv == Ev.invoked
          IN /\ inv[1].src = "remove"
             /\ IF IsSome(inv[1].res)
                THEN /\ Len(inv) = 2
                     /\ inv[2].src = "exchange"
                     /\ IF IsOk(inv[2].res)
                        THEN LET response == inv[2].res.val
                             IN /\ Ev.result =
                                      Ok(AccessToken(response.access_token,
                                                     now + response.expires_in))
                                /\ refresh_tokens[Ev.scopes] = Some(response.refresh_token)
                        ELSE /\ Ev.result = inv[2].res
                             /\ refresh_tokens[Ev.scopes] = None
                ELSE inv[2].src = "start"

\* An exchange has just failed: its error was returned and nothing is stored
\* for the scopes, for which a refresh token was stored before.
C19_Witness ==
    /\ Fetched
    /\ Len(Ev.invoked) = 2
    /\ IsSome(Ev.invoked[1].res)
    /\ Ev.invoked[2].src = "exchange"
    /\ ~IsOk(Ev.result)
    /\ refresh_tokens[Ev.scopes] = None

\* C20: the lock of the refresh-token map is held for the whole acquisition:
\* a caller is past lock().await and before its return exactly when it holds
\* the guard, so at most one caller of a credential is exchanging, starting a
\* flow or polling at any time, whatever the scopes; the others wait for the
\* lock.
C20_OneAcquisition ==
    /\ \A c \in Callers : Acquiring(c) <=> mutex = Some(c)
    /\ Cardinality({c \in Callers : Acquiring(c)}) <= 1

\* A caller polls the stream of its flow, having skipped an error response,
\* while a caller for other scopes waits for the lock.
C20_Witness ==
    \E c, d \in Callers :
        /\ pc[c] = "poll"
        /\ skipped[c] >= 1
        /\ pc[d] = "get_token"
        /\ Unwrap(request[d]).scopes # Unwrap(request[c]).scopes

\* C21: the wait loop of the device-code flow.  Every error response of the
\* poll stream is skipped: the caller stays in the loop, holding the lock, and
\* nothing is returned.  The loop ends only at the first successful response,
\* whose token is returned, expiring expires_in from now, or at the end of a
\* stream that gave no successful response, with the error of kind Credential
\* 'device code did not return a response'.
C21_WaitLoop ==
    /\ [](/\ \A c \in Callers :
              pc[c] = "poll" =>
                  /\ mutex = Some(c)
                  /\ Len(invoked[c]) = 2 + skipped[c]
                  /\ \A i \in 3..Len(invoked[c]) :
                        /\ invoked[c][i].src = "next"
                        /\ IsSome(invoked[c][i].res)
                        /\ ~IsOk(Unwrap(invoked[c][i].res))
          /\ (Fetched /\ Len(Ev.invoked) >= 3) =>
                LET inv == Ev.invoked
                    n == Len(inv)
                    final == inv[n].res
                IN /\ \A i \in 3..n :
                         /\ inv[i].src = "next"
                         /\ i < n => (IsSome(inv[i].res) /\ ~IsOk(Unwrap(inv[i].res)))
                   /\ IF final = None
                      THEN Ev.result =
                              Err(Error("Credential",
                                        <<"device code did not return a response">>))
                      ELSE /\ IsOk(Unwrap(final))
                           /\ Ev.result =
                                 Ok(AccessToken(Unwrap(final).val.access_token,
                                                now + Unwrap(final).val.expires_in)))
    /\ [][\A c \in Callers :
             pc[c] = "poll" =>
                 \/ pc'[c] = "poll"
                 \/ /\ IsSome(last')
                    /\ c \in Unwrap(last').callers
                    /\ Unwrap(last').how = "fetch"
                    /\ Len(Unwrap(last').invoked) = 3 + skipped[c]]_vars

\* The stream of a flow ended after an error response that was skipped: the
\* call failed with the error of the loop.
C21_Witness ==
    /\ Fetched
    /\ Len(Ev.invoked) >= 4
    /\ Ev.invoked[Len(Ev.invoked)] = Call("next", None)
    /\ Ev.invoked[3].src = "next"
    /\ ~IsOk(Ev.result)

====
